---- MODULE Spec2Model ----
(***************************************************************************)
(* Task management core: the Task entity (domain/task.py), the two storage *)
(* backends (memory_task_repository.py, sqlite_task_repository.py) and the *)
(* orchestration service (task_service.py).                                *)
(*                                                                         *)
(* Strings are sequences of characters, timestamps are integer clock ticks *)
(* (MicrosPerSecond ticks make one second), and the text the relational    *)
(* backend stores for a timestamp is a sequence of character codes, built  *)
(* and parsed the way isoformat / fromisoformat build and parse it.        *)
(* The wall clock (datetime.now) never runs backwards here, but two        *)
(* successive readings may be equal.                                       *)
(***************************************************************************)
EXTENDS Integers, Sequences, FiniteSets, TLC

VARIABLES backend, clock, tasks, rows, last, pre, inflight, conns, listed

vars == <<backend, clock, tasks, rows, last, pre, inflight, conns, listed>>

\* ------------------------------------------------------------------------
\* Bounds of the model
\* ------------------------------------------------------------------------
MaxTitleLen == 2
MaxIds == 2
MaxClock == 1
MicrosPerSecond == 2
MaxProcs == 1
MaxConcIds == 1
MaxConns == 2

\* ------------------------------------------------------------------------
\* Values
\* ------------------------------------------------------------------------
Chars == {"a", " "}
Whitespace == {" "}
Titles == UNION {[1..n -> Chars] : n \in 0..MaxTitleLen}

\* Optional[T]: None is the empty tuple, a present value x is <<x>>.
None == << >>
Some(x) == <<x>>

\* str(uuid.uuid4()): a non-empty string; one character stands for the 36.
StrUuid(n) == <<n>>
Ids == {StrUuid(n) : n \in 1..MaxIds}

\* TaskStatus: member name |-> value
TaskStatus == [PENDING |-> "pending", DONE |-> "done"]
StatusValues == {TaskStatus[m] : m \in DOMAIN TaskStatus}
\* TaskStatus(value): the member whose value is the given string
TaskStatusOf(v) == CHOOSE m \in DOMAIN TaskStatus : TaskStatus[m] = v
StatusInputs == StatusValues \cup {"bogus"}

Backends == {"memory", "sqlite"}

\* ------------------------------------------------------------------------
\* str.strip()
\* ------------------------------------------------------------------------
RECURSIVE LStrip(_)
LStrip(s) ==
    IF s = << >> THEN << >>
    ELSE IF Head(s) \in Whitespace THEN LStrip(Tail(s)) ELSE s

RECURSIVE RStrip(_)
RStrip(s) ==
    IF s = << >> THEN << >>
    ELSE IF s[Len(s)] \in Whitespace THEN RStrip(SubSeq(s, 1, Len(s) - 1)) ELSE s

\* str.lstrip() in place of str.strip()
StripLeftOnly(s) == LStrip(s)

Strip(s) == RStrip(LStrip(s))

\* ------------------------------------------------------------------------
\* Task entity
\* ------------------------------------------------------------------------
\* "not title" alone: the whitespace-only check left out
TitleEmptyOnly(title) == title = << >>

\* "not title or not title.strip()"
TitleEmpty(title) == title = << >> \/ Strip(title) = << >>

StatusValid(status) == status \in StatusValues

Raise(st, exc, clk) == [st |-> st, kind |-> exc, value |-> None, clk |-> clk]
Return(st, v, clk) == [st |-> st, kind |-> "ok", value |-> v, clk |-> clk]

\* Task.create(title, status) with uuid4() = uid and datetime.now() = now;
\* None stands for the ValueError.
create(title, status, uid, now) ==
    IF TitleEmpty(title) THEN None
    ELSE IF ~StatusValid(status) THEN None
    ELSE Some([id |-> StrUuid(uid),
               title |-> Strip(title),
               status |-> TaskStatusOf(status),
               created_at |-> now,
               updated_at |-> now])

\* update_status stamping created_at in place of updated_at
update_status_StampsCreatedAt(task, new_status, now) ==
    IF ~StatusValid(new_status) THEN None
    ELSE Some([task EXCEPT !.status = TaskStatusOf(new_status),
                           !.created_at = now])

\* Task.update_status(new_status) with datetime.now() = now; None: ValueError
update_status(task, new_status, now) ==
    IF ~StatusValid(new_status) THEN None
    ELSE Some([task EXCEPT !.status = TaskStatusOf(new_status),
                           !.updated_at = now])

\* update_title stamping created_at along with updated_at
update_title_Restamps(task, new_title, now) ==
    IF TitleEmpty(new_title) THEN None
    ELSE Some([task EXCEPT !.title = Strip(new_title),
                           !.created_at = now,
                           !.updated_at = now])

\* "self.title = new_title" in place of "self.title = new_title.strip()"
update_title_NoStrip(task, new_title, now) ==
    IF TitleEmpty(new_title) THEN None
    ELSE Some([task EXCEPT !.title = new_title,
                           !.updated_at = now])

\* Task.update_title(new_title) with datetime.now() = now; None: ValueError
update_title(task, new_title, now) ==
    IF TitleEmpty(new_title) THEN None
    ELSE Some([task EXCEPT !.title = Strip(new_title),
                           !.updated_at = now])

\* ------------------------------------------------------------------------
\* datetime.isoformat() / datetime.fromisoformat() / text comparison
\* ------------------------------------------------------------------------
CharPlus == 43
CharDot == 46
CharZero == 48

\* isoformat(timespec="seconds"): the fraction is never written
isoformatSeconds(t) ==
    LET sec == t \div MicrosPerSecond
    IN <<CharZero + (sec \div 10), CharZero + (sec % 10), CharPlus>>

\* isoformat() of an aware UTC datetime: zero-padded seconds, then the
\* fraction ".ffffff" only when microsecond # 0, then the offset "+00:00"
\* (its leading '+' stands for the whole offset).
isoformat(t) ==
    LET sec == t \div MicrosPerSecond
        us == t % MicrosPerSecond
        whole == <<CharZero + (sec \div 10), CharZero + (sec % 10)>>
    IN IF us = 0 THEN whole \o <<CharPlus>>
       ELSE whole \o <<CharDot, CharZero + us, CharPlus>>

\* a parser that reads the seconds and drops the fraction
fromisoformatNoFraction(s) ==
    ((s[1] - CharZero) * 10 + (s[2] - CharZero)) * MicrosPerSecond

fromisoformat(s) ==
    LET sec == (s[1] - CharZero) * 10 + (s[2] - CharZero)
        us == IF s[3] = CharDot THEN s[4] - CharZero ELSE 0
    IN sec * MicrosPerSecond + us

\* SQLite's BINARY collation on TEXT: bytewise comparison, a proper prefix
\* sorts first.
RECURSIVE TextLess(_, _)
TextLess(a, b) ==
    IF b = << >> THEN FALSE
    ELSE IF a = << >> THEN TRUE
    ELSE IF Head(a) # Head(b) THEN Head(a) < Head(b)
    ELSE TextLess(Tail(a), Tail(b))

\* Task.to_dict(): the flat record of strings
to_dict(task) ==
    [id |-> task.id,
     title |-> task.title,
     status |-> TaskStatus[task.status],
     created_at |-> isoformat(task.created_at),
     updated_at |-> isoformat(task.updated_at)]

\* ------------------------------------------------------------------------
\* MemoryTaskRepository: _tasks is a dict, kept here as the sequence of its
\* values in insertion order (the order list(self._tasks.values()) yields).
\* ------------------------------------------------------------------------
MemHas(ts, id) == \E i \in 1..Len(ts) : ts[i].id = id
MemIndex(ts, id) == CHOOSE i \in 1..Len(ts) : ts[i].id = id

\* a list append in place of the dict assignment
MemPutAppend(ts, task) == Append(ts, task)

\* self._tasks[task.id] = task
MemPut(ts, task) ==
    IF MemHas(ts, task.id)
    THEN [ts EXCEPT ![MemIndex(ts, task.id)] = task]
    ELSE Append(ts, task)

MemSave(ts, task) == [store |-> MemPut(ts, task), kind |-> "ok", value |-> task]

\* sorted(..., key=created_at) without reverse=True: ascending and stable
RECURSIVE InsertAsc(_, _)
InsertAsc(s, x) ==
    IF s = << >> THEN <<x>>
    ELSE IF Head(s).created_at <= x.created_at
         THEN <<Head(s)>> \o InsertAsc(Tail(s), x)
         ELSE <<x>> \o s

\* sorted(..., key=created_at, reverse=True): descending and stable
RECURSIVE InsertDesc(_, _)
InsertDesc(s, x) ==
    IF s = << >> THEN <<x>>
    ELSE IF Head(s).created_at >= x.created_at
         THEN <<Head(s)>> \o InsertDesc(Tail(s), x)
         ELSE <<x>> \o s

RECURSIVE SortedDesc(_, _)
SortedDesc(ts, acc) ==
    IF ts = << >> THEN acc
    ELSE SortedDesc(Tail(ts), InsertDesc(acc, Head(ts)))

MemFindAll(ts) == SortedDesc(ts, << >>)

MemFindById(ts, id) == IF MemHas(ts, id) THEN Some(ts[MemIndex(ts, id)]) ELSE None

\* update without the "task.id not in self._tasks" test
MemUpdateUpsert(ts, task) ==
    [store |-> MemPut(ts, task), kind |-> "ok", value |-> Some(task)]

MemUpdate(ts, task) ==
    IF ~MemHas(ts, task.id)
    THEN [store |-> ts, kind |-> "ok", value |-> None]
    ELSE [store |-> MemPut(ts, task), kind |-> "ok", value |-> Some(task)]

\* "self._tasks.clear()" in place of "del self._tasks[task_id]"
MemDeleteClears(ts, id) ==
    IF MemHas(ts, id)
    THEN [store |-> << >>, kind |-> "ok", value |-> TRUE]
    ELSE [store |-> ts, kind |-> "ok", value |-> FALSE]

MemDelete(ts, id) ==
    IF MemHas(ts, id)
    THEN [store |-> SelectSeq(ts, LAMBDA t : t.id # id), kind |-> "ok", value |-> TRUE]
    ELSE [store |-> ts, kind |-> "ok", value |-> FALSE]

\* ------------------------------------------------------------------------
\* SQLiteTaskRepository: the table tasks is a set of rows, id PRIMARY KEY
\* ------------------------------------------------------------------------
TaskToRow(task) ==
    [id |-> task.id,
     title |-> task.title,
     status |-> TaskStatus[task.status],
     created_at |-> isoformat(task.created_at),
     updated_at |-> isoformat(task.updated_at)]

_row_to_task(row) ==
    [id |-> row.id,
     title |-> row.title,
     status |-> TaskStatusOf(row.status),
     created_at |-> fromisoformat(row.created_at),
     updated_at |-> fromisoformat(row.updated_at)]

SqlHas(rs, id) == \E r \in rs : r.id = id

\* INSERT OR REPLACE INTO tasks ... in place of INSERT INTO tasks ...
SqlSaveOrReplace(rs, task) ==
    [store |-> {r \in rs : r.id # task.id} \cup {TaskToRow(task)},
     kind |-> "ok", value |-> task]

\* INSERT INTO tasks ...: a duplicate id violates the primary key, the
\* connection's context manager rolls back and the IntegrityError propagates.
SqlSave(rs, task) ==
    IF SqlHas(rs, task.id)
    THEN [store |-> rs, kind |-> "IntegrityError", value |-> None]
    ELSE [store |-> rs \cup {TaskToRow(task)}, kind |-> "ok", value |-> task]

\* ORDER BY created_at (ascending) in place of ORDER BY created_at DESC
SqlOrderingsAsc(rs) ==
    {f \in [1..Cardinality(rs) -> rs] :
        /\ \A i, j \in 1..Cardinality(rs) : i # j => f[i] # f[j]
        /\ \A i, j \in 1..Cardinality(rs) :
              i < j => ~TextLess(f[j].created_at, f[i].created_at)}

\* SELECT * FROM tasks ORDER BY created_at DESC: every order of the rows that
\* is non-increasing in the created_at TEXT; rows with equal text come in an
\* order the engine chooses.
SqlOrderings(rs) ==
    {f \in [1..Cardinality(rs) -> rs] :
        /\ \A i, j \in 1..Cardinality(rs) : i # j => f[i] # f[j]
        /\ \A i, j \in 1..Cardinality(rs) :
              i < j => ~TextLess(f[i].created_at, f[j].created_at)}

SqlFindAll(rs) ==
    {[i \in 1..Cardinality(rs) |-> _row_to_task(f[i])] : f \in SqlOrderings(rs)}

SqlFindById(rs, id) ==
    IF SqlHas(rs, id) THEN Some(_row_to_task(CHOOSE r \in rs : r.id = id)) ELSE None

\* INSERT OR REPLACE INTO tasks ... in place of UPDATE tasks ...
SqlUpdateOrInsert(rs, task) ==
    [store |-> {r \in rs : r.id # task.id} \cup {TaskToRow(task)},
     kind |-> "ok", value |-> Some(task)]

\* UPDATE tasks SET title = ?, status = ?, created_at = ?, updated_at = ?
SqlUpdateAllColumns(rs, task) ==
    IF ~SqlHas(rs, task.id)
    THEN [store |-> rs, kind |-> "ok", value |-> None]
    ELSE [store |-> {IF r.id = task.id THEN TaskToRow(task) ELSE r : r \in rs},
          kind |-> "ok", value |-> Some(task)]

\* UPDATE tasks SET title = ?, updated_at = ? WHERE id = ?
SqlUpdateKeepsStatus(rs, task) ==
    IF ~SqlHas(rs, task.id)
    THEN [store |-> rs, kind |-> "ok", value |-> None]
    ELSE [store |-> {IF r.id = task.id
                     THEN [r EXCEPT !.title = task.title,
                                    !.updated_at = isoformat(task.updated_at)]
                     ELSE r : r \in rs},
          kind |-> "ok", value |-> Some(task)]

\* UPDATE tasks SET title = ?, status = ?, updated_at = ? WHERE id = ?
SqlUpdate(rs, task) ==
    IF ~SqlHas(rs, task.id)
    THEN [store |-> rs, kind |-> "ok", value |-> None]
    ELSE [store |-> {IF r.id = task.id
                     THEN [r EXCEPT !.title = task.title,
                                    !.status = TaskStatus[task.status],
                                    !.updated_at = isoformat(task.updated_at)]
                     ELSE r : r \in rs},
          kind |-> "ok", value |-> Some(task)]

\* "return cursor.rowcount >= 0" in place of "> 0"
SqlDeleteAlwaysTrue(rs, id) ==
    [store |-> {r \in rs : r.id # id}, kind |-> "ok", value |-> TRUE]

SqlDelete(rs, id) ==
    [store |-> {r \in rs : r.id # id}, kind |-> "ok", value |-> SqlHas(rs, id)]

\* ------------------------------------------------------------------------
\* ITaskRepository, dispatched on the backend the service was built with.
\* st is the storage of both backends: [tasks |-> ..., rows |-> ...].
\* ------------------------------------------------------------------------
RepoSave(b, st, task) ==
    IF b = "memory"
    THEN LET r == MemSave(st.tasks, task)
         IN [st |-> [st EXCEPT !.tasks = r.store], kind |-> r.kind, value |-> r.value]
    ELSE LET r == SqlSave(st.rows, task)
         IN [st |-> [st EXCEPT !.rows = r.store], kind |-> r.kind, value |-> r.value]

\* the set of sequences find_all may return (one, except for relational ties)
RepoFindAll(b, st) ==
    IF b = "memory" THEN {MemFindAll(st.tasks)} ELSE SqlFindAll(st.rows)

RepoFindById(b, st, id) ==
    IF b = "memory" THEN MemFindById(st.tasks, id) ELSE SqlFindById(st.rows, id)

RepoUpdate(b, st, task) ==
    IF b = "memory"
    THEN LET r == MemUpdate(st.tasks, task)
         IN [st |-> [st EXCEPT !.tasks = r.store], kind |-> r.kind, value |-> r.value]
    ELSE LET r == SqlUpdate(st.rows, task)
         IN [st |-> [st EXCEPT !.rows = r.store], kind |-> r.kind, value |-> r.value]

RepoDelete(b, st, id) ==
    IF b = "memory"
    THEN LET r == MemDelete(st.tasks, id)
         IN [st |-> [st EXCEPT !.tasks = r.store], kind |-> r.kind, value |-> r.value]
    ELSE LET r == SqlDelete(st.rows, id)
         IN [st |-> [st EXCEPT !.rows = r.store], kind |-> r.kind, value |-> r.value]

\* The object find_by_id hands to the service.  The in-memory backend returns
\* the very object its dict holds (self._tasks.get), so a setter called on it
\* changes the stored entry at once; the relational backend builds a new
\* object from the row, so a setter changes nothing stored.
SetterEffect(b, st, task) ==
    IF b = "memory" THEN [st EXCEPT !.tasks = MemPut(st.tasks, task)] ELSE st

\* ------------------------------------------------------------------------
\* TaskService
\* ------------------------------------------------------------------------
\* create_task(title, status="pending"); status is None when not given
create_task(b, st, title, status, uid, now, clk) ==
    LET made == create(title, IF status = None THEN "pending" ELSE status[1], uid, now)
    IN IF made = None THEN Raise(st, "ValueError", clk)
       ELSE LET r == RepoSave(b, st, made[1])
            IN [st |-> r.st, kind |-> r.kind, value |-> r.value, clk |-> now]

get_task_by_id(b, st, task_id, clk) == Return(st, RepoFindById(b, st, task_id), clk)

\* update_task with the setters' validation run before the lookup
update_task_ValidatesFirst(b, st, task_id, title, status, now1, now2, clk) ==
    IF \/ (title # None /\ TitleEmpty(title[1]))
       \/ (status # None /\ ~StatusValid(status[1]))
    THEN Raise(st, "ValueError", clk)
    ELSE LET found == RepoFindById(b, st, task_id)
         IN IF found = None THEN Return(st, None, clk)
            ELSE
              LET t1 == IF title = None THEN found[1]
                        ELSE update_title(found[1], title[1], now1)[1]
                  t2 == IF status = None THEN t1
                        ELSE update_status(t1, status[1], now2)[1]
                  r == RepoUpdate(b, st, t2)
              IN [st |-> r.st, kind |-> r.kind, value |-> r.value,
                  clk |-> IF status # None THEN now2
                          ELSE IF title # None THEN now1 ELSE clk]

\* update_task(task_id, title=None, status=None); now1 and now2 are the clock
\* readings of update_title and update_status, taken only if the setter gets
\* as far as reading the clock.
update_task(b, st, task_id, title, status, now1, now2, clk) ==
    LET found == RepoFindById(b, st, task_id)
    IN IF found = None THEN Return(st, None, clk)
       ELSE
         LET t0 == found[1]
             retitled == IF title = None THEN Some(t0)
                         ELSE update_title(t0, title[1], now1)
         IN IF retitled = None THEN Raise(st, "ValueError", clk)
            ELSE
              LET t1 == retitled[1]
                  st1 == IF title = None THEN st ELSE SetterEffect(b, st, t1)
                  clk1 == IF title = None THEN clk ELSE now1
                  restated == IF status = None THEN Some(t1)
                              ELSE update_status(t1, status[1], now2)
              IN IF restated = None THEN Raise(st1, "ValueError", clk1)
                 ELSE
                   LET t2 == restated[1]
                       st2 == IF status = None THEN st1 ELSE SetterEffect(b, st1, t2)
                       clk2 == IF status = None THEN clk1 ELSE now2
                       r == RepoUpdate(b, st2, t2)
                   IN [st |-> r.st, kind |-> r.kind, value |-> r.value, clk |-> clk2]

delete_task(b, st, task_id, clk) ==
    LET r == RepoDelete(b, st, task_id)
    IN [st |-> r.st, kind |-> r.kind, value |-> r.value, clk |-> clk]

\* ------------------------------------------------------------------------
\* State machine: one service over one backend, called sequentially
\* ------------------------------------------------------------------------
Storage == [tasks |-> tasks, rows |-> rows]
NoCall == [op |-> "init", id |-> None, title |-> None, status |-> None,
           task |-> None, kind |-> "ok", value |-> None]

\* update_task calls that have fetched their task and not yet returned: what
\* each holds between its repository round trips
Procs == 1..MaxProcs
Idle == [pc |-> "idle", id |-> None, title |-> None, status |-> None, task |-> None,
         fetched |-> None]

\* a sequence that find_all returned and its caller still holds: seen is what
\* it contained when it was returned, now is what its holder reads in it
NoListing == [seen |-> << >>, now |-> << >>]

StoredIds == IF backend = "memory" THEN {tasks[i].id : i \in 1..Len(tasks)}
             ELSE {r.id : r \in rows}

Init ==
    /\ backend \in Backends
    /\ clock = 0
    /\ tasks = << >>
    /\ rows = {}
    /\ last = NoCall
    /\ pre = [tasks |-> << >>, rows |-> {}]
    /\ inflight = [p \in Procs |-> Idle]
    /\ conns = 0
    /\ listed = NoListing

\* what every call does to the state, given the outcome r of the service method
Finish(op, id, title, status, r) ==
    /\ tasks' = r.st.tasks
    /\ rows' = r.st.rows
    /\ clock' = r.clk
    /\ last' = [op |-> op, id |-> id, title |-> title, status |-> status,
                task |-> None, kind |-> r.kind, value |-> r.value]
    /\ pre' = Storage
    /\ UNCHANGED <<backend, inflight, conns, listed>>

\* uuid4() never repeats an id that is in use
CreateTask ==
    \E title \in Titles, status \in {None} \cup {Some(s) : s \in StatusInputs},
       uid \in 1..MaxIds, now \in clock..MaxClock :
        /\ StrUuid(uid) \notin StoredIds
        /\ \E r \in {create_task(backend, Storage, title, status, uid, now, clock)} :
              Finish("create_task", Some(StrUuid(uid)), Some(title), status, r)

GetAllTasks ==
    \E listing \in RepoFindAll(backend, Storage) :
        Finish("get_all_tasks", None, None, None, Return(Storage, listing, clock))

GetTaskById ==
    \E id \in Ids :
        \E r \in {get_task_by_id(backend, Storage, id, clock)} :
            Finish("get_task_by_id", Some(id), None, None, r)

UpdateTask ==
    \E id \in Ids, title \in {None} \cup {Some(t) : t \in Titles},
       status \in {None} \cup {Some(s) : s \in StatusInputs},
       now1 \in clock..MaxClock :
        \E now2 \in now1..MaxClock :
            /\ title = None => now1 = clock
            /\ status = None => now2 = now1
            /\ \E r \in {update_task(backend, Storage, id, title, status,
                                     now1, now2, clock)} :
                  Finish("update_task", Some(id), title, status, r)

DeleteTask ==
    \E id \in Ids :
        \E r \in {delete_task(backend, Storage, id, clock)} :
            Finish("delete_task", Some(id), None, None, r)

Next == CreateTask \/ GetAllTasks \/ GetTaskById \/ UpdateTask \/ DeleteTask

Spec == Init /\ [][Next]_vars

\* ------------------------------------------------------------------------
\* State machine of the storage port alone: the five operations of
\* ITaskRepository called directly, save and update with any well-formed task
\* ------------------------------------------------------------------------
TrimmedTitles == {t \in Titles : t # << >> /\ Strip(t) = t}

TaskValues ==
    {t \in [id : Ids, title : TrimmedTitles, status : DOMAIN TaskStatus,
            created_at : 0..MaxClock, updated_at : 0..MaxClock] :
        t.created_at <= t.updated_at}

\* what an operation of the port does to the storage
PortEffect(op, id, task, r) ==
    /\ tasks' = r.st.tasks
    /\ rows' = r.st.rows
    /\ last' = [op |-> op, id |-> id, title |-> None, status |-> None,
                task |-> task, kind |-> r.kind, value |-> r.value]
    /\ pre' = Storage
    /\ UNCHANGED <<backend, clock, inflight, listed>>

PortFinish(op, id, task, r) == PortEffect(op, id, task, r) /\ UNCHANGED conns

PortSave ==
    \E task \in TaskValues :
        \E r \in {RepoSave(backend, Storage, task)} :
            PortFinish("save", Some(task.id), Some(task), r)

PortFindAll ==
    \E listing \in RepoFindAll(backend, Storage) :
        PortFinish("find_all", None, None,
                   [st |-> Storage, kind |-> "ok", value |-> listing])

PortFindById ==
    \E id \in Ids :
        PortFinish("find_by_id", Some(id), None,
                   [st |-> Storage, kind |-> "ok",
                    value |-> RepoFindById(backend, Storage, id)])

PortUpdate ==
    \E task \in TaskValues :
        \E r \in {RepoUpdate(backend, Storage, task)} :
            PortFinish("update", Some(task.id), Some(task), r)

PortDelete ==
    \E id \in Ids :
        \E r \in {RepoDelete(backend, Storage, id)} :
            PortFinish("delete", Some(id), None, r)

PortNext == PortSave \/ PortFindAll \/ PortFindById \/ PortUpdate \/ PortDelete

PortSpec == Init /\ [][PortNext]_vars

\* ------------------------------------------------------------------------
\* State machine of the relational backend's connections: the five
\* operations of SQLiteTaskRepository, each with the connection it opens;
\* conns counts the connections that are open.
\* ------------------------------------------------------------------------
\* conn = sqlite3.connect(self.db_path): one more open connection
_get_connection(n) == n + 1

\* "with self._get_connection() as conn:" leaves the block through
\* Connection.__exit__, which commits, or rolls back when the block raised,
\* and does not close the connection.
ConnectionExit(n) == n

\* No operation calls conn.close().  When an operation returns, its frame and
\* with it the last reference to the connection are dropped, and the
\* interpreter finalizes (closes) the connection; when it raises, the
\* traceback keeps the frame and the connection stays open.
FrameDropped(kind, n) == IF kind = "ok" THEN n - 1 ELSE n

\* the connection of one operation that ends with the given kind
Scoped(kind) ==
    /\ _get_connection(conns) <= MaxConns
    /\ conns' = FrameDropped(kind, ConnectionExit(_get_connection(conns)))

ConnInit == Init /\ backend = "sqlite"

ConnSave ==
    \E task \in TaskValues :
        \E r \in {RepoSave(backend, Storage, task)} :
            PortEffect("save", Some(task.id), Some(task), r) /\ Scoped(r.kind)

ConnFindAll ==
    \E listing \in RepoFindAll(backend, Storage) :
        /\ PortEffect("find_all", None, None,
                      [st |-> Storage, kind |-> "ok", value |-> listing])
        /\ Scoped("ok")

ConnFindById ==
    \E id \in Ids :
        /\ PortEffect("find_by_id", Some(id), None,
                      [st |-> Storage, kind |-> "ok",
                       value |-> RepoFindById(backend, Storage, id)])
        /\ Scoped("ok")

ConnUpdate ==
    \E task \in TaskValues :
        \E r \in {RepoUpdate(backend, Storage, task)} :
            PortEffect("update", Some(task.id), Some(task), r) /\ Scoped(r.kind)

ConnDelete ==
    \E id \in Ids :
        \E r \in {RepoDelete(backend, Storage, id)} :
            PortEffect("delete", Some(id), None, r) /\ Scoped(r.kind)

\* the traceback of an operation that raised is dropped and the interpreter
\* finalizes its connection
Finalize ==
    /\ conns > 0
    /\ conns' = conns - 1
    /\ UNCHANGED <<backend, clock, tasks, rows, last, pre, inflight, listed>>

ConnNext ==
    ConnSave \/ ConnFindAll \/ ConnFindById \/ ConnUpdate \/ ConnDelete \/ Finalize

ConnSpec == ConnInit /\ [][ConnNext]_vars

\* ------------------------------------------------------------------------
\* State machine of the two backends side by side: one TaskService over a
\* MemoryTaskRepository (tasks) and one over a SQLiteTaskRepository (rows),
\* given the same calls with the same uuid4() values and clock readings.
\* last.kind and last.value are the pairs <<in-memory, relational>> of what
\* the two services did.
\* ------------------------------------------------------------------------
PairInit ==
    /\ backend = "both"
    /\ clock = 0
    /\ tasks = << >>
    /\ rows = {}
    /\ last = [NoCall EXCEPT !.kind = <<"ok", "ok">>, !.value = <<None, None>>]
    /\ pre = [tasks |-> << >>, rows |-> {}]
    /\ inflight = [p \in Procs |-> Idle]
    /\ conns = 0
    /\ listed = NoListing

\* rm and rs are the outcomes of the call on the two services
PairFinish(op, id, rm, rs) ==
    /\ tasks' = rm.st.tasks
    /\ rows' = rs.st.rows
    /\ clock' = rm.clk
    /\ last' = [op |-> op, id |-> id, title |-> None, status |-> None,
                task |-> None, kind |-> <<rm.kind, rs.kind>>,
                value |-> <<rm.value, rs.value>>]
    /\ UNCHANGED <<backend, pre, inflight, conns, listed>>

PairCreateTask ==
    \E title \in Titles, status \in {None} \cup {Some(s) : s \in StatusInputs},
       uid \in 1..MaxIds, now \in clock..MaxClock :
        /\ ~MemHas(tasks, StrUuid(uid))
        /\ ~SqlHas(rows, StrUuid(uid))
        /\ PairFinish("create_task", Some(StrUuid(uid)),
                      create_task("memory", Storage, title, status, uid, now, clock),
                      create_task("sqlite", Storage, title, status, uid, now, clock))

PairGetAllTasks ==
    \E lm \in RepoFindAll("memory", Storage), ls \in RepoFindAll("sqlite", Storage) :
        PairFinish("get_all_tasks", None,
                   Return(Storage, lm, clock), Return(Storage, ls, clock))

PairGetTaskById ==
    \E id \in Ids :
        \E rm \in {get_task_by_id("memory", Storage, id, clock)},
           rs \in {get_task_by_id("sqlite", Storage, id, clock)} :
            PairFinish("get_task_by_id", Some(id), rm, rs)

PairUpdateTask ==
    \E id \in Ids, title \in {None} \cup {Some(t) : t \in Titles},
       status \in {None} \cup {Some(s) : s \in StatusInputs},
       now1 \in clock..MaxClock :
        \E now2 \in now1..MaxClock :
            /\ title = None => now1 = clock
            /\ status = None => now2 = now1
            /\ PairFinish("update_task", Some(id),
                          update_task("memory", Storage, id, title, status,
                                      now1, now2, clock),
                          update_task("sqlite", Storage, id, title, status,
                                      now1, now2, clock))

PairDeleteTask ==
    \E id \in Ids :
        \E rm \in {delete_task("memory", Storage, id, clock)},
           rs \in {delete_task("sqlite", Storage, id, clock)} :
            PairFinish("delete_task", Some(id), rm, rs)

PairNext ==
    \/ PairCreateTask
    \/ PairGetAllTasks
    \/ PairGetTaskById
    \/ PairUpdateTask
    \/ PairDeleteTask

PairSpec == PairInit /\ [][PairNext]_vars

\* ------------------------------------------------------------------------
\* State machine of a caller that keeps the list get_all_tasks returned,
\* over the in-memory backend: sorted(list(self._tasks.values()), ...) is a
\* new list of the Task objects the dict holds, not of copies of them.
\* ------------------------------------------------------------------------
SnapInit == Init /\ backend = "memory"

ListedIds == {listed.now[i].id : i \in 1..Len(listed.now)}

\* what the holder of the list reads after a call: the list keeps its
\* elements; an element the dict still holds is the dict's object with its
\* present fields, an element deleted from the dict is no longer written
Reread(l, st) ==
    [seen |-> l.seen,
     now |-> [i \in 1..Len(l.now) |->
                 IF MemHas(st.tasks, l.now[i].id)
                 THEN MemFindById(st.tasks, l.now[i].id)[1]
                 ELSE l.now[i]]]

SnapFinish(op, r) ==
    /\ tasks' = r.st.tasks
    /\ rows' = r.st.rows
    /\ clock' = r.clk
    /\ last' = [NoCall EXCEPT !.op = op, !.kind = r.kind]
    /\ listed' = Reread(listed, r.st)
    /\ UNCHANGED <<backend, pre, inflight, conns>>

\* tasks = self._repository.find_all(), kept by the caller
SnapGetAllTasks ==
    \E listing \in RepoFindAll(backend, Storage) :
        /\ listed' = [seen |-> listing, now |-> listing]
        /\ last' = [NoCall EXCEPT !.op = "get_all_tasks"]
        /\ UNCHANGED <<backend, clock, tasks, rows, pre, inflight, conns>>

\* uuid4() repeats neither a stored id nor the id of an object still held
SnapCreateTask ==
    \E title \in Titles, status \in {None} \cup {Some(s) : s \in StatusInputs},
       uid \in 1..MaxIds, now \in clock..MaxClock :
        /\ StrUuid(uid) \notin StoredIds \cup ListedIds
        /\ \E r \in {create_task(backend, Storage, title, status, uid, now, clock)} :
              SnapFinish("create_task", r)

SnapUpdateTask ==
    \E id \in Ids, title \in {None} \cup {Some(t) : t \in Titles},
       status \in {None} \cup {Some(s) : s \in StatusInputs},
       now1 \in clock..MaxClock :
        \E now2 \in now1..MaxClock :
            /\ title = None => now1 = clock
            /\ status = None => now2 = now1
            /\ \E r \in {update_task(backend, Storage, id, title, status,
                                     now1, now2, clock)} :
                  SnapFinish("update_task", r)

SnapDeleteTask ==
    \E id \in Ids :
        \E r \in {delete_task(backend, Storage, id, clock)} :
            SnapFinish("delete_task", r)

SnapNext == SnapGetAllTasks \/ SnapCreateTask \/ SnapUpdateTask \/ SnapDeleteTask

SnapSpec == SnapInit /\ [][SnapNext]_vars

\* ------------------------------------------------------------------------
\* The HTTP adapter: request DTOs, endpoints and the status codes they answer
\* ------------------------------------------------------------------------
HTTP_200_OK == 200
HTTP_201_CREATED == 201
HTTP_204_NO_CONTENT == 204
HTTP_400_BAD_REQUEST == 400
HTTP_404_NOT_FOUND == 404
HTTP_422_UNPROCESSABLE_ENTITY == 422

\* TaskCreateRequest(title=..., status=...): the validated body, None when a
\* field is rejected (the framework then answers 422 and the endpoint does
\* not run).  title is required, min_length=1, title_not_empty strips it;
\* status defaults to "pending", status_valid checks it.
TaskCreateRequest(title, status) ==
    IF title = None THEN None
    ELSE IF Len(title[1]) < 1 THEN None
    ELSE IF Strip(title[1]) = << >> THEN None
    ELSE IF status # None /\ status[1] \notin {"pending", "done"} THEN None
    ELSE Some([title |-> Strip(title[1]),
               status |-> IF status = None THEN "pending" ELSE status[1]])

\* TaskUpdateRequest(title=..., status=...): both fields optional
TaskUpdateRequest(title, status) ==
    IF title # None /\ Len(title[1]) < 1 THEN None
    ELSE IF title # None /\ Strip(title[1]) = << >> THEN None
    ELSE IF status # None /\ status[1] \notin {"pending", "done"} THEN None
    ELSE Some([title |-> IF title = None THEN None ELSE Some(Strip(title[1])),
               status |-> status])

Respond(st, code, body, clk) == [st |-> st, kind |-> code, value |-> body, clk |-> clk]

\* POST /tasks
http_create_task(b, st, title, status, uid, now, clk) ==
    LET request == TaskCreateRequest(title, status)
    IN IF request = None
       THEN Respond(st, HTTP_422_UNPROCESSABLE_ENTITY, None, clk)
       ELSE LET r == create_task(b, st, request[1].title, Some(request[1].status),
                                 uid, now, clk)
            IN IF r.kind = "ValueError"
               THEN Respond(r.st, HTTP_400_BAD_REQUEST, None, r.clk)
               ELSE Respond(r.st, HTTP_201_CREATED, to_dict(r.value), r.clk)

\* GET /tasks/{task_id}
http_get_task(b, st, task_id, clk) ==
    LET r == get_task_by_id(b, st, task_id, clk)
    IN IF r.value = None
       THEN Respond(r.st, HTTP_404_NOT_FOUND, None, r.clk)
       ELSE Respond(r.st, HTTP_200_OK, to_dict(r.value[1]), r.clk)

\* the update endpoint without its "if not task" answer
http_update_task_No404(b, st, task_id, title, status, now1, now2, clk) ==
    LET request == TaskUpdateRequest(title, status)
    IN IF request = None
       THEN Respond(st, HTTP_422_UNPROCESSABLE_ENTITY, None, clk)
       ELSE LET r == update_task(b, st, task_id, request[1].title,
                                 request[1].status, now1, now2, clk)
            IN IF r.kind = "ValueError"
               THEN Respond(r.st, HTTP_400_BAD_REQUEST, None, r.clk)
               ELSE Respond(r.st, HTTP_200_OK, None, r.clk)

\* PUT /tasks/{task_id}
http_update_task(b, st, task_id, title, status, now1, now2, clk) ==
    LET request == TaskUpdateRequest(title, status)
    IN IF request = None
       THEN Respond(st, HTTP_422_UNPROCESSABLE_ENTITY, None, clk)
       ELSE LET r == update_task(b, st, task_id, request[1].title,
                                 request[1].status, now1, now2, clk)
            IN IF r.kind = "ValueError"
               THEN Respond(r.st, HTTP_400_BAD_REQUEST, None, r.clk)
               ELSE IF r.value = None
               THEN Respond(r.st, HTTP_404_NOT_FOUND, None, r.clk)
               ELSE Respond(r.st, HTTP_200_OK, to_dict(r.value[1]), r.clk)

\* DELETE /tasks/{task_id}
http_delete_task(b, st, task_id, clk) ==
    LET r == delete_task(b, st, task_id, clk)
    IN IF ~r.value
       THEN Respond(r.st, HTTP_404_NOT_FOUND, None, r.clk)
       ELSE Respond(r.st, HTTP_204_NO_CONTENT, None, r.clk)

\* ------------------------------------------------------------------------
\* State machine of the HTTP adapter: one request at a time; last.kind is
\* the status code answered, last.title and last.status the body as sent
\* ------------------------------------------------------------------------
HttpPost ==
    \E title \in {None} \cup {Some(t) : t \in Titles},
       status \in {None} \cup {Some(s) : s \in StatusInputs},
       uid \in 1..MaxIds, now \in clock..MaxClock :
        /\ StrUuid(uid) \notin StoredIds
        /\ \E r \in {http_create_task(backend, Storage, title, status, uid, now, clock)} :
              Finish("POST", Some(StrUuid(uid)), title, status, r)

HttpGetAll ==
    \E listing \in RepoFindAll(backend, Storage) :
        Finish("GET_ALL", None, None, None,
               Respond(Storage, HTTP_200_OK,
                       [i \in 1..Len(listing) |-> to_dict(listing[i])], clock))

HttpGet ==
    \E id \in Ids :
        \E r \in {http_get_task(backend, Storage, id, clock)} :
            Finish("GET", Some(id), None, None, r)

HttpPut ==
    \E id \in Ids, title \in {None} \cup {Some(t) : t \in Titles},
       status \in {None} \cup {Some(s) : s \in StatusInputs},
       now1 \in clock..MaxClock :
        \E now2 \in now1..MaxClock :
            /\ title = None => now1 = clock
            /\ status = None => now2 = now1
            /\ \E r \in {http_update_task(backend, Storage, id, title, status,
                                          now1, now2, clock)} :
                  Finish("PUT", Some(id), title, status, r)

HttpDelete ==
    \E id \in Ids :
        \E r \in {http_delete_task(backend, Storage, id, clock)} :
            Finish("DELETE", Some(id), None, None, r)

HttpNext == HttpPost \/ HttpGetAll \/ HttpGet \/ HttpPut \/ HttpDelete

HttpSpec == Init /\ [][HttpNext]_vars

\* ------------------------------------------------------------------------
\* State machine of serialization: a task is turned into its flat record
\* (Task.to_dict, or the row SQLiteTaskRepository.save binds), a task is
\* rebuilt from the record (_row_to_task) and serialized again.  last.task is
\* the task at the start, last.value the records and the rebuilt task so far.
\* ------------------------------------------------------------------------
Serialize(how, task) == IF how = "to_dict" THEN to_dict(task) ELSE TaskToRow(task)

SerStart ==
    \E task \in TaskValues, how \in {"to_dict", "row"} :
        /\ last' = [NoCall EXCEPT !.op = how, !.task = Some(task),
                                  !.value = <<Serialize(how, task)>>]
        /\ UNCHANGED <<backend, clock, tasks, rows, pre, inflight, conns, listed>>

SerRebuild ==
    /\ last.op \in {"to_dict", "row"}
    /\ Len(last.value) = 1
    /\ last' = [last EXCEPT !.value = Append(@, _row_to_task(last.value[1]))]
    /\ UNCHANGED <<backend, clock, tasks, rows, pre, inflight, conns, listed>>

SerAgain ==
    /\ last.op \in {"to_dict", "row"}
    /\ Len(last.value) = 2
    /\ last' = [last EXCEPT !.value = Append(@, Serialize(last.op, last.value[2]))]
    /\ UNCHANGED <<backend, clock, tasks, rows, pre, inflight, conns, listed>>

SerNext == SerStart \/ SerRebuild \/ SerAgain

SerSpec == Init /\ [][SerNext]_vars

\* ------------------------------------------------------------------------
\* State machine of concurrent requests.  The endpoints are plain functions,
\* so the server runs every request on a worker thread and the calls of
\* TaskService interleave.  The processes of Procs are update_task calls taken
\* one step at a time (fetch, title setter, status setter, persist); the calls
\* of the other threads (ConcCreate, ConcUpdate, ConcDelete) fall between
\* their steps.
\* ------------------------------------------------------------------------
\* the ids the concurrent requests work on
ConcIds == {StrUuid(n) : n \in 1..MaxConcIds}

HeldIds == {inflight[p].id[1] : p \in {q \in Procs : inflight[q].pc # "idle"}}

\* In the in-memory backend find_by_id hands every caller the one Task object
\* of the id: a holder reads whatever has been written to the stored entry.
SeeStore(infl, st) ==
    [p \in Procs |->
        IF backend = "memory" /\ infl[p].pc # "idle" /\ MemHas(st.tasks, infl[p].id[1])
        THEN [infl[p] EXCEPT !.task = MemFindById(st.tasks, infl[p].id[1])]
        ELSE infl[p]]

\* ... and whatever another holder's setter has written to the object, also
\* once the entry has been deleted from the dict.
SeeObject(infl, task) ==
    [p \in Procs |->
        IF backend = "memory" /\ infl[p].pc # "idle" /\ infl[p].id = Some(task.id)
        THEN [infl[p] EXCEPT !.task = Some(task)]
        ELSE infl[p]]

\* a setter called on the fetched object: it writes the stored entry only
\* while the dict still holds that object
HeldEffect(b, st, task) ==
    IF b = "memory" /\ MemHas(st.tasks, task.id) THEN SetterEffect(b, st, task) ELSE st

\* the step of update_task that follows the fetch, and the title setter
AfterFetch(title, status) ==
    IF title # None THEN "title" ELSE IF status # None THEN "status" ELSE "persist"

AfterTitle(status) == IF status # None THEN "status" ELSE "persist"

\* a whole call of another thread
ConcFinish(op, id, r) ==
    /\ tasks' = r.st.tasks
    /\ rows' = r.st.rows
    /\ clock' = r.clk
    /\ last' = [op |-> op, id |-> id, title |-> None, status |-> None,
                task |-> None, kind |-> r.kind, value |-> r.value]
    /\ pre' = Storage
    /\ inflight' = SeeStore(inflight, r.st)
    /\ UNCHANGED <<backend, conns, listed>>

\* uuid4() repeats neither a stored id nor one a running call still holds
ConcCreate ==
    \E title \in Titles, status \in {None} \cup {Some(s) : s \in StatusInputs},
       uid \in 1..MaxConcIds, now \in clock..MaxClock :
        /\ StrUuid(uid) \notin StoredIds \cup HeldIds
        /\ \E r \in {create_task(backend, Storage, title, status, uid, now, clock)} :
              ConcFinish("create_task", Some(StrUuid(uid)), r)

ConcUpdate ==
    \E id \in ConcIds, title \in {None} \cup {Some(t) : t \in Titles},
       status \in {None} \cup {Some(s) : s \in StatusInputs},
       now1 \in clock..MaxClock :
        \E now2 \in now1..MaxClock :
            /\ title = None => now1 = clock
            /\ status = None => now2 = now1
            /\ \E r \in {update_task(backend, Storage, id, title, status,
                                     now1, now2, clock)} :
                  ConcFinish("update_task", Some(id), r)

ConcDelete ==
    \E id \in ConcIds :
        \E r \in {delete_task(backend, Storage, id, clock)} :
            ConcFinish("delete_task", Some(id), r)

\* the call of process p returns or raises; task is the object it handed to
\* the repository's update, None if it never got there; title and status
\* are the arguments of a call that reached the repository
UpdEnd(p, id, task, st, kind, value, clk) ==
    /\ tasks' = st.tasks
    /\ rows' = st.rows
    /\ clock' = clk
    /\ last' = [op |-> "update_task", id |-> Some(id),
                title |-> IF task = None THEN None ELSE inflight[p].title,
                status |-> IF task = None THEN None ELSE inflight[p].status,
                task |-> task, kind |-> kind, value |-> value]
    /\ pre' = Storage
    /\ inflight' = [inflight EXCEPT ![p] = Idle]
    /\ UNCHANGED <<backend, conns, listed>>

\* task = self._repository.find_by_id(task_id); if not task: return None
UpdFetch(p) ==
    /\ inflight[p].pc = "idle"
    /\ \E id \in ConcIds, title \in {None} \cup {Some(t) : t \in Titles},
          status \in {None} \cup {Some(s) : s \in StatusInputs} :
          LET found == RepoFindById(backend, Storage, id)
          IN IF found = None
             THEN UpdEnd(p, id, None, Storage, "ok", None, clock)
             ELSE /\ inflight' = [inflight EXCEPT ![p] =
                                     [pc |-> AfterFetch(title, status), id |-> Some(id),
                                      title |-> title, status |-> status,
                                      task |-> found,
                                      fetched |-> IF backend = "sqlite"
                                                  THEN found ELSE None]]
                  /\ UNCHANGED <<backend, clock, tasks, rows, last, pre, conns, listed>>

\* if title is not None: task.update_title(title)
UpdTitle(p) ==
    /\ inflight[p].pc = "title"
    /\ \E now \in clock..MaxClock :
          LET me == inflight[p]
              retitled == update_title(me.task[1], me.title[1], now)
          IN IF retitled = None
             THEN UpdEnd(p, me.id[1], None, Storage, "ValueError", None, clock)
             ELSE LET st1 == HeldEffect(backend, Storage, retitled[1])
                  IN /\ tasks' = st1.tasks
                     /\ rows' = st1.rows
                     /\ clock' = now
                     /\ inflight' = [SeeObject(inflight, retitled[1]) EXCEPT ![p] =
                                        [me EXCEPT !.pc = AfterTitle(me.status),
                                                   !.task = retitled]]
                     /\ UNCHANGED <<backend, last, pre, conns, listed>>

\* if status is not None: task.update_status(status)
UpdStatus(p) ==
    /\ inflight[p].pc = "status"
    /\ \E now \in clock..MaxClock :
          LET me == inflight[p]
              restated == update_status(me.task[1], me.status[1], now)
          IN IF restated = None
             THEN UpdEnd(p, me.id[1], None, Storage, "ValueError", None, clock)
             ELSE LET st1 == HeldEffect(backend, Storage, restated[1])
                  IN /\ tasks' = st1.tasks
                     /\ rows' = st1.rows
                     /\ clock' = now
                     /\ inflight' = [SeeObject(inflight, restated[1]) EXCEPT ![p] =
                                        [me EXCEPT !.pc = "persist", !.task = restated]]
                     /\ UNCHANGED <<backend, last, pre, conns, listed>>

\* return self._repository.update(task).  The relational UPDATE is one
\* statement in one transaction; the in-memory update tests
\* "task.id not in self._tasks" and assigns in a second step.
UpdPersist(p) ==
    /\ inflight[p].pc = "persist"
    /\ LET me == inflight[p]
       IN IF backend = "sqlite"
          THEN LET r == RepoUpdate(backend, Storage, me.task[1])
               IN UpdEnd(p, me.id[1], me.task, r.st, r.kind, r.value, clock)
          ELSE IF ~MemHas(tasks, me.id[1])
               THEN UpdEnd(p, me.id[1], me.task, Storage, "ok", None, clock)
               ELSE /\ inflight' = [inflight EXCEPT ![p].pc = "store"]
                    /\ UNCHANGED <<backend, clock, tasks, rows, last, pre, conns, listed>>

\* self._tasks[task.id] = task; return task
UpdStore(p) ==
    /\ inflight[p].pc = "store"
    /\ LET me == inflight[p]
       IN UpdEnd(p, me.id[1], me.task,
                 [Storage EXCEPT !.tasks = MemPut(tasks, me.task[1])],
                 "ok", me.task, clock)

ConcNext ==
    \/ ConcCreate
    \/ ConcUpdate
    \/ ConcDelete
    \/ \E p \in Procs : UpdFetch(p)
    \/ \E p \in Procs : UpdTitle(p)
    \/ \E p \in Procs : UpdStatus(p)
    \/ \E p \in Procs : UpdPersist(p)
    \/ \E p \in Procs : UpdStore(p)

ConcSpec == Init /\ [][ConcNext]_vars

\* ------------------------------------------------------------------------
\* Vocabulary of the properties
\* ------------------------------------------------------------------------
HasId(b, st, id) == IF b = "memory" THEN MemHas(st.tasks, id) ELSE SqlHas(st.rows, id)

\* the stored task with the given id, as find_by_id reads it
TaskAt(st, id) == RepoFindById(backend, st, id)[1]

IdsOf(st) == {id \in Ids : HasId(backend, st, id)}

\* the stored tasks with an id other than the given one are the same in
\* both storages
OthersSame(st1, st2, id) ==
    \A other \in Ids \ {id} :
        /\ HasId(backend, st1, other) <=> HasId(backend, st2, other)
        /\ HasId(backend, st1, other) => TaskAt(st1, other) = TaskAt(st2, other)

TitleGiven == last.title # None
StatusGiven == last.status # None
BadTitle == TitleGiven /\ \A i \in 1..Len(last.title[1]) : last.title[1][i] \in Whitespace
BadStatus == StatusGiven /\ last.status[1] \notin {"pending", "done"}

\* out is s without its leading and trailing whitespace
IsTrimOf(out, s) ==
    /\ out # << >>
    /\ out[1] \notin Whitespace
    /\ out[Len(out)] \notin Whitespace
    /\ \E k \in 0..(Len(s) - Len(out)) :
          /\ SubSeq(s, k + 1, k + Len(out)) = out
          /\ \A i \in 1..Len(s) : (i <= k \/ i > k + Len(out)) => s[i] \in Whitespace

\* position of the task with the given id in a listing
PosIn(listing, id) == CHOOSE i \in 1..Len(listing) : listing[i].id = id

\* ------------------------------------------------------------------------
\* C1: update_task on an existing id with an invalid title or an invalid
\* status raises the validation error and leaves the stored task unchanged in
\* every field, also when a valid title comes with an invalid status, on both
\* backends.
\* ------------------------------------------------------------------------
C1_InvalidUpdateChangesNothing ==
    (/\ last.op = "update_task"
     /\ HasId(backend, pre, last.id[1])
     /\ (BadTitle \/ BadStatus))
    => (last.kind = "ValueError" /\ Storage = pre)

\* ------------------------------------------------------------------------
\* C2: for a title that is non-empty after trimming and a status in
\* {pending, done}, create returns a task with the trimmed title, the given
\* status (pending when none is given), a non-empty id and
\* created_at = updated_at.
\* ------------------------------------------------------------------------
C2_CreateStampsTask ==
    (/\ last.op = "create_task"
     /\ ~BadTitle
     /\ ~BadStatus)
    => /\ last.kind = "ok"
       /\ IsTrimOf(last.value.title, last.title[1])
       /\ TaskStatus[last.value.status] =
              (IF StatusGiven THEN last.status[1] ELSE "pending")
       /\ Len(last.value.id) > 0
       /\ last.value.created_at = last.value.updated_at

C2_Witness ==
    /\ last.op = "create_task"
    /\ last.kind = "ok"
    /\ ~StatusGiven
    /\ Len(last.title[1]) > Len(last.value.title)

\* ------------------------------------------------------------------------
\* C3: create_task with an empty title, a whitespace-only title or a status
\* outside {pending, done} fails with the validation error and the stored
\* tasks are the same before and after the call.
\* ------------------------------------------------------------------------
C3_InvalidCreatePersistsNothing ==
    (last.op = "create_task" /\ (BadTitle \/ BadStatus))
    => (last.kind = "ValueError" /\ Storage = pre)

C3_Witness ==
    /\ last.op = "create_task"
    /\ last.kind = "ValueError"
    /\ BadTitle
    /\ last.title[1] # << >>
    /\ IdsOf(pre) # {}

\* ------------------------------------------------------------------------
\* C4: for a task saved under an id that is not yet present, find_by_id with
\* that id right after the save returns a task equal to the saved one in all
\* five fields, on both backends.
\* ------------------------------------------------------------------------
C4_FindAfterSaveReturnsSaved ==
    (last.op = "save" /\ ~HasId(backend, pre, last.id[1]))
    => /\ last.kind = "ok"
       /\ last.value = last.task[1]
       /\ RepoFindById(backend, Storage, last.id[1]) # None
       /\ LET got == RepoFindById(backend, Storage, last.id[1])[1]
          IN /\ got.id = last.task[1].id
             /\ got.title = last.task[1].title
             /\ got.status = last.task[1].status
             /\ got.created_at = last.task[1].created_at
             /\ got.updated_at = last.task[1].updated_at

C4_Witness ==
    /\ last.op = "save"
    /\ backend = "sqlite"
    /\ last.kind = "ok"
    /\ IdsOf(pre) # {}
    /\ last.task[1].created_at < last.task[1].updated_at
    /\ last.task[1].updated_at % MicrosPerSecond # 0

\* ------------------------------------------------------------------------
\* C5: update_task on an id that is not stored returns None without raising,
\* whatever title and status it is given (valid or not), and leaves the store
\* unchanged.
\* ------------------------------------------------------------------------
C5_UpdateAbsentReturnsNone ==
    (last.op = "update_task" /\ ~HasId(backend, pre, last.id[1]))
    => (last.kind = "ok" /\ last.value = None /\ Storage = pre)

C5_Witness ==
    /\ last.op = "update_task"
    /\ ~HasId(backend, pre, last.id[1])
    /\ BadTitle
    /\ BadStatus
    /\ IdsOf(pre) # {}

\* ------------------------------------------------------------------------
\* C6: update_task on an existing id with only one field supplied changes
\* only that field; id and created_at are unchanged and updated_at advances.
\* ------------------------------------------------------------------------
C6_PartialUpdateAdvancesUpdatedAt ==
    (/\ last.op = "update_task"
     /\ HasId(backend, pre, last.id[1])
     /\ last.kind = "ok"
     /\ TitleGiven # StatusGiven)
    => LET old == TaskAt(pre, last.id[1])
           new == TaskAt(Storage, last.id[1])
       IN /\ HasId(backend, Storage, last.id[1])
          /\ (~TitleGiven => new.title = old.title)
          /\ (~StatusGiven => new.status = old.status)
          /\ new.id = old.id
          /\ new.created_at = old.created_at
          /\ new.updated_at > old.updated_at

\* ------------------------------------------------------------------------
\* C7: delete on an existing id returns true and removes exactly that record:
\* find_by_id on it then returns None and a second delete returns false;
\* delete on an id that is not stored returns false without raising.
\* ------------------------------------------------------------------------
C7_DeleteRemovesExactlyOne ==
    last.op = "delete_task"
    => /\ last.kind = "ok"
       /\ last.value = HasId(backend, pre, last.id[1])
       /\ IdsOf(Storage) = IdsOf(pre) \ {last.id[1]}
       /\ \A id \in IdsOf(Storage) : TaskAt(Storage, id) = TaskAt(pre, id)
       /\ RepoFindById(backend, Storage, last.id[1]) = None
       /\ RepoDelete(backend, Storage, last.id[1]).kind = "ok"
       /\ RepoDelete(backend, Storage, last.id[1]).value = FALSE
       /\ (~HasId(backend, pre, last.id[1]) => Storage = pre)

C7_Witness ==
    /\ last.op = "delete_task"
    /\ last.value = TRUE
    /\ IdsOf(Storage) # {}

\* ------------------------------------------------------------------------
\* C8: for two tasks A and B inserted one after the other, find_all returns
\* B before A.  (As stated: for every earlier task A, right after B's
\* creation.)
\* ------------------------------------------------------------------------
C8_NewestFirstAlways ==
    (last.op = "create_task" /\ last.kind = "ok")
    => \A listing \in RepoFindAll(backend, Storage) :
          \A a \in IdsOf(pre) :
              PosIn(listing, last.value.id) < PosIn(listing, a)

\* C8 as amended: B comes before A when B's created_at is strictly later
\* than A's; when the two creations read the same clock value the in-memory
\* backend lists A before B.
C8_NewestFirstWhenClockAdvanced ==
    (last.op = "create_task" /\ last.kind = "ok")
    => \A listing \in RepoFindAll(backend, Storage) :
          \A a \in IdsOf(pre) :
              /\ last.value.created_at > TaskAt(pre, a).created_at
                    => PosIn(listing, last.value.id) < PosIn(listing, a)
              /\ (backend = "memory"
                    /\ last.value.created_at = TaskAt(pre, a).created_at)
                    => PosIn(listing, a) < PosIn(listing, last.value.id)
              /\ (IdsOf(pre) = {a}
                    /\ last.value.created_at > TaskAt(pre, a).created_at)
                    => listing = <<last.value, TaskAt(pre, a)>>

C8_Witness ==
    /\ last.op = "create_task"
    /\ last.kind = "ok"
    /\ \E a \in IdsOf(pre) : last.value.created_at > TaskAt(pre, a).created_at

\* ------------------------------------------------------------------------
\* C9: find_all returns every stored task exactly once and nothing else, in
\* non-increasing order of created_at; on an empty store it returns the
\* empty sequence.
\* ------------------------------------------------------------------------
C9_FindAllListsStoreDescending ==
    last.op = "get_all_tasks"
    => /\ last.kind = "ok"
       /\ Len(last.value) = Cardinality(IdsOf(Storage))
       /\ \A id \in IdsOf(Storage) :
             \E i \in 1..Len(last.value) : last.value[i] = TaskAt(Storage, id)
       /\ \A i \in 1..Len(last.value) :
             /\ HasId(backend, Storage, last.value[i].id)
             /\ last.value[i] = TaskAt(Storage, last.value[i].id)
       /\ \A i, j \in 1..Len(last.value) :
             i < j => last.value[i].created_at >= last.value[j].created_at
       /\ (IdsOf(Storage) = {} => last.value = << >>)

C9_Witness ==
    /\ last.op = "get_all_tasks"
    /\ backend = "sqlite"
    /\ Len(last.value) = 2
    /\ last.value[1].created_at > last.value[2].created_at

\* ------------------------------------------------------------------------
\* C10: every successful update_title or update_status sets updated_at to a
\* value strictly greater than the task's previous updated_at.
\* ------------------------------------------------------------------------
C10_MutationStrictlyAdvancesUpdatedAt ==
    (/\ last.op = "update_task"
     /\ last.kind = "ok"
     /\ last.value # None
     /\ (TitleGiven \/ StatusGiven))
    => last.value[1].updated_at > TaskAt(pre, last.id[1]).updated_at

\* ------------------------------------------------------------------------
\* C11: in every reachable state every stored task has
\* updated_at >= created_at, whatever create_task, update_task and
\* delete_task calls have run and however their steps interleaved.
\* ------------------------------------------------------------------------
C11_UpdatedNotBeforeCreated ==
    \A id \in IdsOf(Storage) :
        TaskAt(Storage, id).updated_at >= TaskAt(Storage, id).created_at

\* an update in flight holds a stale copy of a task that another thread's
\* update has stamped since
C11_Witness ==
    \E p \in Procs :
        /\ inflight[p].pc = "persist"
        /\ inflight[p].id[1] \in IdsOf(Storage)
        /\ TaskAt(Storage, inflight[p].id[1]).updated_at
               > TaskAt(Storage, inflight[p].id[1]).created_at
        /\ inflight[p].task[1].updated_at
               < TaskAt(Storage, inflight[p].id[1]).updated_at

\* ------------------------------------------------------------------------
\* C12: in every state the service's operations reach, the failed ones
\* included, every stored task has a non-empty title without leading or
\* trailing whitespace and a status that is pending or done.
\* ------------------------------------------------------------------------
C12_StoredTasksWellFormed ==
    \A id \in IdsOf(Storage) :
        LET t == TaskAt(Storage, id)
        IN /\ t.title # << >>
           /\ t.title[1] \notin Whitespace
           /\ t.title[Len(t.title)] \notin Whitespace
           /\ TaskStatus[t.status] \in {"pending", "done"}

\* a call that failed with the validation error and left the store changed
C12_Witness ==
    /\ last.op = "update_task"
    /\ last.kind = "ValueError"
    /\ Storage # pre
    /\ Len(last.title[1]) > Len(TaskAt(Storage, last.id[1]).title)

\* ------------------------------------------------------------------------
\* C13: in every reachable state of a backend at most one stored record has
\* any given id; a save of a task whose id is already present leaves the
\* number of records unchanged, and in the in-memory backend it overwrites
\* the existing entry.
\* ------------------------------------------------------------------------
C13_OneRecordPerId ==
    /\ \A i, j \in 1..Len(tasks) : tasks[i].id = tasks[j].id => i = j
    /\ \A r1, r2 \in rows : r1.id = r2.id => r1 = r2
    /\ (last.op = "save" /\ HasId(backend, pre, last.id[1]))
       => /\ Len(tasks) = Len(pre.tasks)
          /\ Cardinality(rows) = Cardinality(pre.rows)
          /\ backend = "memory" => TaskAt(Storage, last.id[1]) = last.task[1]

\* the in-memory save replaced the entry of a present id, another id stored
C13_Witness ==
    /\ backend = "memory"
    /\ last.op = "save"
    /\ HasId(backend, pre, last.id[1])
    /\ TaskAt(pre, last.id[1]) # last.task[1]
    /\ Len(tasks) = 2

\* ------------------------------------------------------------------------
\* C14: from its creation until its deletion a task's stored id and
\* created_at never change: no call, update_task in particular, takes a
\* stored task to one with another id or another created_at.
\* ------------------------------------------------------------------------
C14_IdAndCreatedAtNeverChange ==
    [][\A id \in Ids :
          (HasId(backend, Storage, id) /\ HasId(backend, Storage', id))
          => /\ TaskAt(Storage', id).id = TaskAt(Storage, id).id
             /\ TaskAt(Storage', id).created_at = TaskAt(Storage, id).created_at]_vars

\* an update of title and status stored later than the task was created
C14_Witness ==
    /\ last.op = "update_task"
    /\ last.kind = "ok"
    /\ last.value # None
    /\ TitleGiven
    /\ StatusGiven
    /\ TaskAt(Storage, last.id[1]) = last.value[1]
    /\ TaskAt(Storage, last.id[1]) # TaskAt(pre, last.id[1])
    /\ last.value[1].updated_at > last.value[1].created_at

\* ------------------------------------------------------------------------
\* C15: the port's update(task) on a stored id overwrites the record with all
\* of the task's fields (title, status, created_at, updated_at), so that
\* find_by_id then returns a task equal to the argument; on an id that is
\* not stored it returns None and stores nothing; on both backends.
\* ------------------------------------------------------------------------
C15_UpdateOverwritesAllFields ==
    (last.op = "update")
    => IF HasId(backend, pre, last.id[1])
       THEN /\ last.kind = "ok"
            /\ last.value = last.task
            /\ TaskAt(Storage, last.id[1]) = last.task[1]
       ELSE /\ last.kind = "ok"
            /\ last.value = None
            /\ Storage = pre

\* ------------------------------------------------------------------------
\* C15 (amended): update(task) on a stored id overwrites title, status and
\* updated_at on both backends and returns the task; created_at is
\* overwritten by the in-memory backend only, the relational backend keeps
\* the stored created_at; the other records stay as they are.  On an id that
\* is not stored it returns None and stores nothing.
\* ------------------------------------------------------------------------
C15_UpdateOverwritesMutableFields ==
    (last.op = "update")
    => IF HasId(backend, pre, last.id[1])
       THEN LET t == TaskAt(Storage, last.id[1])
                arg == last.task[1]
            IN /\ last.kind = "ok"
               /\ last.value = last.task
               /\ t.id = arg.id
               /\ t.title = arg.title
               /\ t.status = arg.status
               /\ t.updated_at = arg.updated_at
               /\ t.created_at = (IF backend = "memory" THEN arg.created_at
                                  ELSE TaskAt(pre, last.id[1]).created_at)
               /\ OthersSame(Storage, pre, last.id[1])
       ELSE /\ last.kind = "ok"
            /\ last.value = None
            /\ Storage = pre

\* a relational update whose task differs from the row in title and in
\* created_at
C15_Witness ==
    /\ backend = "sqlite"
    /\ last.op = "update"
    /\ HasId(backend, pre, last.id[1])
    /\ last.task[1].created_at # TaskAt(pre, last.id[1]).created_at
    /\ last.task[1].title # TaskAt(pre, last.id[1]).title
    /\ last.value # None

\* ------------------------------------------------------------------------
\* C16: the port's save(task) on an id that is already stored fails with the
\* duplicate-key error and leaves the existing record unchanged.
\* ------------------------------------------------------------------------
C16_SaveOfPresentIdFails ==
    (last.op = "save" /\ HasId(backend, pre, last.id[1]))
    => (last.kind = "IntegrityError" /\ Storage = pre)

\* ------------------------------------------------------------------------
\* C16 (amended): save(task) on an id that is already stored fails with
\* IntegrityError on the relational backend and leaves every record
\* unchanged; on the in-memory backend it succeeds, returns the task and
\* replaces the stored entry, the other entries staying as they are.
\* ------------------------------------------------------------------------
C16_SaveOfPresentIdPerBackend ==
    (last.op = "save" /\ HasId(backend, pre, last.id[1]))
    => IF backend = "sqlite"
       THEN last.kind = "IntegrityError" /\ Storage = pre
       ELSE /\ last.kind = "ok"
            /\ last.value = last.task[1]
            /\ TaskAt(Storage, last.id[1]) = last.task[1]
            /\ OthersSame(Storage, pre, last.id[1])

\* a relational save of a task that differs from the stored row of its id
C16_Witness ==
    /\ backend = "sqlite"
    /\ last.op = "save"
    /\ HasId(backend, pre, last.id[1])
    /\ TaskAt(pre, last.id[1]) # last.task[1]
    /\ last.kind = "IntegrityError"
    /\ Cardinality(rows) = 2

\* ------------------------------------------------------------------------
\* C17: the port's find_by_id, update and delete on an id that is not stored
\* return None, None and false, raise nothing and leave the store unchanged,
\* on both backends.
\* ------------------------------------------------------------------------
C17_AbsentIdIsNoError ==
    (/\ last.op \in {"find_by_id", "update", "delete"}
     /\ ~HasId(backend, pre, last.id[1]))
    => /\ last.kind = "ok"
       /\ last.value = (IF last.op = "delete" THEN FALSE ELSE None)
       /\ Storage = pre

\* an update with an id that is not stored, while another id is
C17_Witness ==
    /\ last.op = "update"
    /\ ~HasId(backend, pre, last.id[1])
    /\ IdsOf(pre) # {}
    /\ last.value = None

\* ------------------------------------------------------------------------
\* C18: when a delete of id X has completed between the fetch and the
\* persist of an update_task on X, the update is a silent no-op: the call
\* returns None without raising, stores nothing, and X stays absent.
\* ------------------------------------------------------------------------
C18_UpdateAfterDeleteIsNoOp ==
    [][\A p \in Procs :
          (/\ inflight[p].pc = "persist"
           /\ ~HasId(backend, Storage, inflight[p].id[1])
           /\ inflight'[p].pc = "idle")
          => /\ last'.op = "update_task"
             /\ last'.id = inflight[p].id
             /\ last'.kind = "ok"
             /\ last'.value = None
             /\ Storage' = Storage]_vars

\* an update_task that reached its persist with a retitled task and found
\* the id gone
C18_Witness ==
    /\ last.op = "update_task"
    /\ last.task # None
    /\ last.kind = "ok"
    /\ last.value = None
    /\ last.task[1].updated_at > last.task[1].created_at
    /\ ~HasId(backend, Storage, last.id[1])

\* ------------------------------------------------------------------------
\* C19: every operation of the relational backend opens a connection of its
\* own and closes it before it ends, when it returns and when it raises: no
\* connection an operation opened is open once the operation has ended.
\* ------------------------------------------------------------------------
C19_NoConnectionOutlivesItsOperation == conns = 0

\* ------------------------------------------------------------------------
\* C20: the two backends are interchangeable behind the service: given the
\* same sequence of calls with the same ids and clock readings, the service
\* over the in-memory backend and the one over the relational backend return
\* the same result or the same error at every step and hold stored tasks
\* that are equal in every field.
\* ------------------------------------------------------------------------
C20_BackendsInterchangeable ==
    /\ last.kind[1] = last.kind[2]
    /\ last.value[1] = last.value[2]
    /\ {tasks[i] : i \in 1..Len(tasks)} = {_row_to_task(r) : r \in rows}

\* ------------------------------------------------------------------------
\* C21: the sequence find_all of the in-memory backend returned is a
\* snapshot: no later save, update, delete or update_task changes which tasks
\* it contains or the field values of those tasks.
\* ------------------------------------------------------------------------
C21_ListingIsSnapshot == listed.now = listed.seen

\* ------------------------------------------------------------------------
\* C22: serialization is a lossless round trip: for any valid task, the flat
\* record made from it, a task rebuilt from that record and the record made
\* from the rebuilt task give a second record equal to the first in all five
\* fields.
\* ------------------------------------------------------------------------
C22_SerializationRoundTrip ==
    (last.op \in {"to_dict", "row"} /\ Len(last.value) = 3)
    => /\ last.value[3].id = last.value[1].id
       /\ last.value[3].title = last.value[1].title
       /\ last.value[3].status = last.value[1].status
       /\ last.value[3].created_at = last.value[1].created_at
       /\ last.value[3].updated_at = last.value[1].updated_at

\* a finished round trip of a done task whose created_at has no fraction of
\* a second and whose updated_at has one
C22_Witness ==
    /\ last.op = "to_dict"
    /\ Len(last.value) = 3
    /\ last.task[1].status = "DONE"
    /\ Len(last.value[1].created_at) < Len(last.value[1].updated_at)
    /\ last.value[2] = last.task[1]

\* ------------------------------------------------------------------------
\* C23: at the HTTP boundary a GET, a PUT with a valid body or a DELETE on an
\* id that is not stored answers 404 and leaves the store unchanged; a
\* request rejected for an invalid title or status answers 400 or 422, never
\* 404 when the id exists.
\* ------------------------------------------------------------------------
C23_NotFoundAndInvalidAreDistinct ==
    /\ (/\ last.op \in {"GET", "PUT", "DELETE"}
        /\ ~HasId(backend, pre, last.id[1])
        /\ ~BadTitle
        /\ ~BadStatus)
       => (last.kind = HTTP_404_NOT_FOUND /\ Storage = pre)
    /\ (last.op \in {"POST", "PUT"} /\ (BadTitle \/ BadStatus))
       => last.kind \in {HTTP_400_BAD_REQUEST, HTTP_422_UNPROCESSABLE_ENTITY}

\* a PUT with a valid title and status for an id that is not stored, while
\* another task is
C23_Witness ==
    /\ last.op = "PUT"
    /\ TitleGiven
    /\ StatusGiven
    /\ ~BadTitle
    /\ ~BadStatus
    /\ last.title[1] # Strip(last.title[1])
    /\ ~HasId(backend, pre, last.id[1])
    /\ IdsOf(pre) # {}
    /\ last.kind = HTTP_404_NOT_FOUND

\* ------------------------------------------------------------------------
\* C24: with the relational backend, an update_task call that persists while
\* its id is stored writes back the title and the status it read at fetch
\* time, each replaced by its own argument where it supplied one, and
\* returns the task so written; whatever another update_task call stored in
\* those two fields between the fetch and the persist is overwritten (lost
\* update).
\* ------------------------------------------------------------------------
C24_LastPersistWritesItsFetchedCopy ==
    [][\A p \in Procs :
          (/\ backend = "sqlite"
           /\ inflight[p].pc = "persist"
           /\ inflight'[p].pc = "idle"
           /\ HasId(backend, Storage, inflight[p].id[1]))
          => LET me == inflight[p]
                 read == me.fetched[1]
                 stored == TaskAt(Storage', me.id[1])
             IN /\ stored.title = IF me.title = None THEN read.title
                                   ELSE Strip(me.title[1])
                /\ stored.status = IF me.status = None THEN read.status
                                    ELSE TaskStatusOf(me.status[1])
                /\ last'.kind = "ok"
                /\ last'.value = Some(stored)]_vars

\* a call that supplied only a title has persisted after another call changed
\* the stored status: the store holds the earlier status again
C24_Witness ==
    /\ backend = "sqlite"
    /\ last.op = "update_task"
    /\ last.task # None
    /\ last.title # None
    /\ last.status = None
    /\ last.value # None
    /\ TaskAt(pre, last.id[1]).status # TaskAt(Storage, last.id[1]).status
    /\ TaskAt(pre, last.id[1]).title # TaskAt(Storage, last.id[1]).title

\* ------------------------------------------------------------------------
\* C25: for every stored task and every interleaving of service operations
\* under a non-decreasing clock, the persisted updated_at never decreases
\* from one state to the next while the task exists.
\* ------------------------------------------------------------------------
C25_UpdatedAtNeverDecreases ==
    [][\A id \in Ids :
          (HasId(backend, Storage, id) /\ HasId(backend, Storage', id))
          => TaskAt(Storage', id).updated_at >= TaskAt(Storage, id).updated_at]_vars

\* ------------------------------------------------------------------------
\* C26: create_task, update_task and delete_task acting on id X, whether
\* they succeed or fail, leave every stored task with another id unchanged in
\* every field; get_task_by_id and get_all_tasks leave the whole store
\* unchanged; update_task on an existing id with neither title nor status
\* returns the task and leaves all of its fields, updated_at included,
\* unchanged.
\* ------------------------------------------------------------------------
C26_FrameEffects ==
    /\ last.op \in {"create_task", "update_task", "delete_task"}
       => OthersSame(Storage, pre, last.id[1])
    /\ last.op \in {"get_task_by_id", "get_all_tasks"} => Storage = pre
    /\ (/\ last.op = "update_task"
        /\ HasId(backend, pre, last.id[1])
        /\ ~TitleGiven
        /\ ~StatusGiven)
       => /\ last.kind = "ok"
          /\ last.value = Some(TaskAt(pre, last.id[1]))
          /\ Storage = pre

\* update_task with neither title nor status on a stored task that was last
\* written before the clock advanced, while a task with another id is stored
C26_Witness ==
    /\ last.op = "update_task"
    /\ ~TitleGiven
    /\ ~StatusGiven
    /\ HasId(backend, pre, last.id[1])
    /\ IdsOf(pre) \ {last.id[1]} # {}
    /\ last.value # None
    /\ clock > last.value[1].updated_at

====
